---- MODULE Spec2Model ----
(***************************************************************************)
(* Financial-Portfolio-Tracker: the transaction processor and the position *)
(* ledger of the two PortfolioTracker variants.                            *)
(*                                                                         *)
(*   "persistent"  src/Financial-Portfolio-Tracker/python/portfolio_tracker.py *)
(*                 one sqlite3 connection kept in self.conn, run on the    *)
(*                 schema of its demo_database_setup.py                    *)
(*   "percall"     src/python/portfolio_tracker.py                         *)
(*                 one sqlite3 connection per call, run on the schema of   *)
(*                 src/python/demo_database_setup.py                       *)
(*                                                                         *)
(* The store is the committed content of the tables portfolios,            *)
(* securities, positions, transactions and market_data.  Quantities and    *)
(* transaction prices are integers; an average cost and a live price are   *)
(* exact fractions [n, d] in lowest terms (the code computes them in       *)
(* binary floating point, whose rounding is not modelled).  A portfolio's  *)
(* id is identified with its name: name is UNIQUE and the id a surrogate   *)
(* key that is never reused.  The valuation queries are computed as        *)
(* SQLite computes them: a column of NUMERIC affinity (the DECIMAL columns *)
(* of the persistent tracker's schema) stores an integral value as an      *)
(* INTEGER, the quotient of two INTEGERs is truncated, a division by zero  *)
(* yields NULL, and ROUND rounds half away from zero.                      *)
(***************************************************************************)
EXTENDS Integers, Sequences, FiniteSets, TLC

\* ------------------------------------------------------------------ bounds

\* Calls of add_transaction are taken while the run has added fewer rows
\* than this to the log.
MaxTx == 2

PortfolioNames == {"Growth", "Income"}
Symbols        == {"AAPL", "MSFT"}
Quantities     == {1, 2}
Prices         == {1, 2}
Types          == {"BUY", "SELL"}

\* The inputs of SpecAny: one key, with arguments the contract excludes.
AnyPortfolioNames == {"Growth"}
AnySymbols     == {"AAPL"}
AnyQuantities  == {-1, 0, 1, 2}
AnyPrices      == {0, 1, 2}
AnyTypes       == {"BUY", "SELL", "HOLD"}

\* The clock (datetime.now(), in whole seconds) advances up to this value.
MaxClock == 1

\* Outcomes of the security-information fetch and injected store faults.
InfoOutcomes   == {"info", "error"}
Faults         == {"none", "insert_transaction", "update_position"}

\* ------------------------------------------------------- exact fractions

Abs(x) == IF x < 0 THEN -x ELSE x

RECURSIVE GCD(_, _)
GCD(a, b) == IF b = 0 THEN a ELSE GCD(b, a % b)

\* n / d in lowest terms with a positive denominator (d # 0).
Rat(n, d) ==
  LET g == GCD(Abs(n), Abs(d))
      s == IF d < 0 THEN -1 ELSE 1
  IN  [n |-> (s * n) \div g, d |-> (s * d) \div g]

RatOfInt(k) == [n |-> k, d |-> 1]

\* The prices Yahoo Finance quotes, and the absence of a quote: the request
\* raised, or it returned neither a current price nor a day of history.
LivePrices == {RatOfInt(1), RatOfInt(2)}
NoQuote    == [n |-> 0, d |-> 0]
Quotes     == LivePrices \cup {NoQuote}

\* ------------------------------------------------------------------ rows

PositionRow(pid, s, q, c) ==
  [portfolio_id |-> pid, symbol |-> s, quantity |-> q, average_cost |-> c]

\* A log row that stores the quantity of a SELL with a minus sign.
TransactionRowSigned(pid, s, q, p, t) ==
  [portfolio_id |-> pid, symbol |-> s,
   quantity |-> IF t = "SELL" THEN -q ELSE q, price |-> p,
   transaction_type |-> t]

TransactionRow(pid, s, q, p, t) ==
  [portfolio_id |-> pid, symbol |-> s, quantity |-> q, price |-> p,
   transaction_type |-> t]

MarketDataRow(s, p, ts) == [symbol |-> s, price |-> p, timestamp |-> ts]

\* The lookup that finds no row.
SelectPositionNone(pos, pid, s) == {}

\* The lookup without the portfolio in its WHERE clause.
SelectPositionBySymbol(pos, pid, s) == {r \in pos : r.symbol = s}

\* SELECT quantity, average_cost FROM positions WHERE portfolio_id = ? AND symbol = ?
SelectPosition(pos, pid, s) ==
  {r \in pos : r.portfolio_id = pid /\ r.symbol = s}

\* The lookup without its WHERE clause: any portfolio row answers.
SelectPortfolioAnyName(pf, name) == pf

\* SELECT id FROM portfolios WHERE name = ?
SelectPortfolio(pf, name) == {n \in pf : n = name}

\* transaction_type TEXT CHECK(transaction_type IN ('BUY', 'SELL'))
TransactionTypeCheck(t) == t \in {"BUY", "SELL"}

\* ------------------------------------------------- the position update

\* The unweighted mean of the two prices instead of the weighted one.
WeightedCostUnweighted(current_qty, current_cost, quantity, price) ==
  Rat(current_cost.n + price * current_cost.d, 2 * current_cost.d)

\* The weights exchanged: the held quantity weighs the new price.
WeightedCostSwapped(current_qty, current_cost, quantity, price) ==
  Rat(current_qty * price * current_cost.d + quantity * current_cost.n,
      current_cost.d * (current_qty + quantity))

\* A row of quantity 0 keeps its average cost when it is bought again.
WeightedCostStale(current_qty, current_cost, quantity, price) ==
  IF current_qty = 0
  THEN current_cost
  ELSE Rat(current_qty * current_cost.n + quantity * price * current_cost.d,
           current_cost.d * (current_qty + quantity))

\* ((current_qty * current_cost) + (quantity * price)) / new_qty, new_qty # 0
WeightedCost(current_qty, current_cost, quantity, price) ==
  Rat(current_qty * current_cost.n + quantity * price * current_cost.d,
      current_cost.d * (current_qty + quantity))

\* update_position_persistent with a SELL that stores the sale price as the
\* average cost.
update_position_persistent_reprice(pos, portfolio_id, symbol, quantity, price, transaction_type) ==
  LET rows == SelectPosition(pos, portfolio_id, symbol)
  IN  IF rows # {}
      THEN LET position     == CHOOSE r \in rows : TRUE
               current_qty  == position.quantity
               current_cost == position.average_cost
               new_qty  == IF transaction_type = "BUY"
                           THEN current_qty + quantity
                           ELSE current_qty - quantity
               new_cost == IF transaction_type = "BUY"
                           THEN IF new_qty > 0
                                THEN Rat(current_qty * current_cost.n
                                           + quantity * price * current_cost.d,
                                         current_cost.d * new_qty)
                                ELSE RatOfInt(price)
                           ELSE RatOfInt(price)
           IN  IF new_qty >= 0
               THEN (pos \ rows) \cup {PositionRow(portfolio_id, symbol, new_qty, new_cost)}
               ELSE pos
      ELSE IF transaction_type = "BUY"
           THEN pos \cup {PositionRow(portfolio_id, symbol, quantity, RatOfInt(price))}
           ELSE pos

\* update_position_persistent without the test new_qty >= 0: the row is
\* written with whatever quantity results.
update_position_persistent_unchecked(pos, portfolio_id, symbol, quantity, price, transaction_type) ==
  LET rows == SelectPosition(pos, portfolio_id, symbol)
  IN  IF rows # {}
      THEN LET position     == CHOOSE r \in rows : TRUE
               current_qty  == position.quantity
               current_cost == position.average_cost
               new_qty  == IF transaction_type = "BUY"
                           THEN current_qty + quantity
                           ELSE current_qty - quantity
               new_cost == IF transaction_type = "BUY"
                           THEN IF new_qty > 0
                                THEN Rat(current_qty * current_cost.n
                                           + quantity * price * current_cost.d,
                                         current_cost.d * new_qty)
                                ELSE RatOfInt(price)
                           ELSE current_cost
           IN  (pos \ rows) \cup {PositionRow(portfolio_id, symbol, new_qty, new_cost)}
      ELSE IF transaction_type = "BUY"
           THEN pos \cup {PositionRow(portfolio_id, symbol, quantity, RatOfInt(price))}
           ELSE pos

\* PortfolioTracker._update_position of the persistent-connection tracker:
\* the positions table after the call.  A new quantity below zero is only
\* logged (logger.warning) and the row is left as it is; a row whose
\* quantity reaches zero is kept.
update_position_persistent(pos, portfolio_id, symbol, quantity, price, transaction_type) ==
  LET rows == SelectPosition(pos, portfolio_id, symbol)
  IN  IF rows # {}
      THEN LET position     == CHOOSE r \in rows : TRUE
               current_qty  == position.quantity
               current_cost == position.average_cost
               new_qty  == IF transaction_type = "BUY"
                           THEN current_qty + quantity
                           ELSE current_qty - quantity
               new_cost == IF transaction_type = "BUY"
                           THEN IF new_qty > 0
                                THEN WeightedCost(current_qty, current_cost, quantity, price)
                                ELSE RatOfInt(price)
                           ELSE current_cost
           IN  IF new_qty >= 0
               THEN (pos \ rows) \cup {PositionRow(portfolio_id, symbol, new_qty, new_cost)}
               ELSE pos
      ELSE IF transaction_type = "BUY"
           THEN pos \cup {PositionRow(portfolio_id, symbol, quantity, RatOfInt(price))}
           ELSE pos

\* PortfolioTracker._update_position of the per-call-connection tracker:
\* [error, positions].  The division is unguarded (ZeroDivisionError when
\* the new quantity is 0 on a BUY) and a new quantity <= 0 deletes the row.
update_position_percall(pos, portfolio_id, symbol, quantity, transaction_type, price) ==
  LET rows == SelectPosition(pos, portfolio_id, symbol)
  IN  IF rows # {}
      THEN LET current         == CHOOSE r \in rows : TRUE
               current_qty      == current.quantity
               current_avg_cost == current.average_cost
               new_qty == IF transaction_type = "BUY"
                          THEN current_qty + quantity
                          ELSE current_qty - quantity
           IN  IF transaction_type = "BUY" /\ new_qty = 0
               THEN [error |-> "ZeroDivisionError", positions |-> pos]
               ELSE LET new_avg_cost ==
                          IF transaction_type = "BUY"
                          THEN WeightedCost(current_qty, current_avg_cost, quantity, price)
                          ELSE current_avg_cost
                    IN  IF new_qty <= 0
                        THEN [error |-> "none", positions |-> pos \ rows]
                        ELSE [error |-> "none",
                              positions |-> (pos \ rows) \cup
                                 {PositionRow(portfolio_id, symbol, new_qty, new_avg_cost)}]
      ELSE IF transaction_type = "BUY"
           THEN [error |-> "none",
                 positions |-> pos \cup
                    {PositionRow(portfolio_id, symbol, quantity, RatOfInt(price))}]
           ELSE [error |-> "none", positions |-> pos]

\* ------------------------------------------------------------------ state

VARIABLES
  variant,       \* which PortfolioTracker runs: "persistent" or "percall"
  portfolios,    \* table portfolios: the set of names (= ids)
  securities,    \* table securities: the set of symbols
  positions,     \* table positions: a set of PositionRow
  transactions,  \* table transactions: the sequence of TransactionRow, by rowid
  market_data,   \* table market_data: a set of MarketDataRow
  clock,         \* datetime.now(), in whole seconds
  last,          \* the last call: its arguments, its result, the store before it
  report,        \* the data frames or the dictionary the last call returned
  history,       \* the number of rows the log held when the run began
  inflight       \* per tracker instance: the add_transaction call it is in

vars == <<variant, portfolios, securities, positions, transactions, market_data,
          clock, last, report, history, inflight>>

Snapshot == [portfolios |-> portfolios, securities |-> securities,
             positions |-> positions, transactions |-> transactions,
             market_data |-> market_data]

\* A call that returns neither a frame nor a dictionary.
NoReport == [rows |-> <<>>, losers |-> <<>>, prices |-> {}]

\* symbols_arg of update_market_data: None, or the list given.
NoSymbols == [given |-> FALSE, list |-> {}]
NoQuotes  == [s \in Symbols |-> NoQuote]

Call(op, pn, s, q, p, t, result, error) ==
  [op |-> op, portfolio_name |-> pn, symbol |-> s, quantity |-> q, price |-> p,
   transaction_type |-> t, result |-> result, error |-> error, pre |-> Snapshot,
   symbols |-> NoSymbols, quote |-> NoQuotes, limit |-> 0, now |-> clock]

\* No call yet, on an empty store.
NoCall ==
  [op |-> "none", portfolio_name |-> "", symbol |-> "", quantity |-> 0,
   price |-> 0, transaction_type |-> "", result |-> "ok", error |-> "none",
   pre |-> [portfolios |-> {}, securities |-> {}, positions |-> {},
            transactions |-> <<>>, market_data |-> {}],
   symbols |-> NoSymbols, quote |-> NoQuotes, limit |-> 0, now |-> 0]

\* The PortfolioTracker instances that share the database, and an instance
\* that is in no call.
Trackers == {1, 2}

Idle == [pc |-> "idle", portfolio_name |-> "", symbol |-> "", quantity |-> 0,
         price |-> 0, transaction_type |-> "", read |-> {}, error |-> "none"]

Init ==
  /\ variant \in {"persistent", "percall"}
  /\ portfolios = {}
  /\ securities = {}
  /\ positions = {}
  /\ transactions = <<>>
  /\ market_data = {}
  /\ clock = 0
  /\ last = NoCall
  /\ report = NoReport
  /\ history = 0
  /\ inflight = [i \in Trackers |-> Idle]

\* PortfolioTracker.create_portfolio, both variants: INSERT INTO portfolios;
\* name is UNIQUE, a duplicate raises (persistent) or returns False (percall).
create_portfolio(name) ==
  /\ IF name \in portfolios
     THEN /\ portfolios' = portfolios
          /\ last' = Call("create_portfolio", name, "", 0, 0, "", "error", "IntegrityError")
     ELSE /\ portfolios' = portfolios \cup {name}
          /\ last' = Call("create_portfolio", name, "", 0, 0, "", "ok", "none")
  /\ report' = NoReport
  /\ UNCHANGED <<variant, history, inflight, securities, positions, transactions, market_data, clock>>

\* ------------------------------------------------------ add_transaction

\* What one add_transaction call leaves committed, and what it reports.
Outcome(error, sec, txs, pos) ==
  [error |-> error, securities |-> sec, transactions |-> txs, positions |-> pos]

\* MarketDataService.get_security_info, called by the persistent-connection
\* tracker for a symbol the securities table does not hold: it returns the
\* information ("none") or raises.
get_security_info(outcome) == IF outcome = "info" THEN "none" ELSE "Exception"

\* MarketDataService.get_company_info, called by the per-call-connection
\* tracker: TRUE when the dictionary it returns carries no 'error' key (it
\* catches every exception itself).
get_company_info(outcome) == outcome = "info"

\* PortfolioTracker._ensure_security_exists (persistent): [error, securities];
\* the inserted row is committed at once.
ensure_security_exists(sec, symbol, outcome) ==
  IF symbol \in sec
  THEN [error |-> "none", securities |-> sec]
  ELSE IF get_security_info(outcome) # "none"
       THEN [error |-> get_security_info(outcome), securities |-> sec]
       ELSE [error |-> "none", securities |-> sec \cup {symbol}]

\* PortfolioTracker.add_transaction of the persistent-connection tracker.
\* The transactions row is committed (line 116) before _update_position
\* runs; the rollback of the except clause undoes only what is uncommitted.
persistent_outcome(portfolio_name, symbol, quantity, price, transaction_type, info, fault) ==
  LET portfolio_row == SelectPortfolio(portfolios, portfolio_name)
  IN  IF portfolio_row = {}
      THEN Outcome("ValueError", securities, transactions, positions)
      ELSE
        LET portfolio_id == CHOOSE r \in portfolio_row : TRUE
            sec == ensure_security_exists(securities, symbol, info)
        IN  IF sec.error # "none"
            THEN Outcome(sec.error, securities, transactions, positions)
            ELSE IF ~TransactionTypeCheck(transaction_type)
            THEN Outcome("IntegrityError", sec.securities, transactions, positions)
            ELSE IF fault = "insert_transaction"
            THEN Outcome("OperationalError", sec.securities, transactions, positions)
            ELSE
              LET logged == Append(transactions,
                              TransactionRow(portfolio_id, symbol, quantity, price,
                                             transaction_type))
              IN  IF fault = "update_position"
                  THEN Outcome("OperationalError", sec.securities, logged, positions)
                  ELSE Outcome("none", sec.securities, logged,
                               update_position_persistent(positions, portfolio_id, symbol,
                                                          quantity, price, transaction_type))

\* PortfolioTracker.add_transaction of the per-call-connection tracker.
\* Nothing is committed before line 131; on any exception the connection is
\* dropped uncommitted and False is returned.
percall_outcome(portfolio_name, symbol, quantity, price, transaction_type, info, fault) ==
  LET result == SelectPortfolio(portfolios, portfolio_name)
      failed(e) == Outcome(e, securities, transactions, positions)
  IN  IF result = {}
      THEN failed("ValueError")
      ELSE
        LET portfolio_id == CHOOSE r \in result : TRUE
            up == update_position_percall(positions, portfolio_id, symbol, quantity,
                                          transaction_type, price)
        IN  IF ~TransactionTypeCheck(transaction_type)
            THEN failed("IntegrityError")
            ELSE IF fault = "insert_transaction"
            THEN failed("OperationalError")
            ELSE IF up.error # "none"
            THEN failed(up.error)
            ELSE IF fault = "update_position"
            THEN failed("OperationalError")
            ELSE Outcome("none",
                         IF get_company_info(info)
                         THEN securities \cup {symbol} ELSE securities,
                         Append(transactions,
                                TransactionRow(portfolio_id, symbol, quantity, price,
                                               transaction_type)),
                         up.positions)

Commit(out, portfolio_name, symbol, quantity, price, transaction_type) ==
  /\ securities' = out.securities
  /\ transactions' = out.transactions
  /\ positions' = out.positions
  /\ last' = Call("add_transaction", portfolio_name, symbol, quantity, price,
                  transaction_type,
                  IF out.error = "none" THEN "ok" ELSE "error", out.error)
  /\ report' = NoReport
  /\ UNCHANGED <<variant, history, inflight, portfolios, market_data, clock>>

add_transaction_persistent(portfolio_name, symbol, quantity, price, transaction_type, info, fault) ==
  /\ variant = "persistent"
  /\ Len(transactions) < history + MaxTx
  /\ Commit(persistent_outcome(portfolio_name, symbol, quantity, price,
                               transaction_type, info, fault),
            portfolio_name, symbol, quantity, price, transaction_type)

add_transaction_percall(portfolio_name, symbol, quantity, price, transaction_type, info, fault) ==
  /\ variant = "percall"
  /\ Len(transactions) < history + MaxTx
  /\ Commit(percall_outcome(portfolio_name, symbol, quantity, price,
                            transaction_type, info, fault),
            portfolio_name, symbol, quantity, price, transaction_type)

\* ------------------------------- add_transaction, statement by statement

\* Two PortfolioTracker instances share the database file, each with its own
\* connection.  SQLite lets one connection write at a time: a connection
\* holds the write lock from its first INSERT, UPDATE or DELETE to its
\* commit, and a SELECT outside a transaction holds no lock once its row
\* has been fetched.  Each instance makes one call.
Running(i, pc, portfolio_name, symbol, quantity, price, transaction_type, read, error) ==
  [inflight EXCEPT ![i] =
     [pc |-> pc, portfolio_name |-> portfolio_name, symbol |-> symbol,
      quantity |-> quantity, price |-> price, transaction_type |-> transaction_type,
      read |-> read, error |-> error]]

Returned(c, error) ==
  Call("add_transaction", c.portfolio_name, c.symbol, c.quantity, c.price,
       c.transaction_type, IF error = "none" THEN "ok" ELSE "error", error)

\* add_transaction (persistent) up to its first commit: the portfolio
\* lookup, _ensure_security_exists, the INSERT into transactions, commit.
begin_persistent(i, portfolio_name, symbol, quantity, price, transaction_type) ==
  /\ variant = "persistent"
  /\ inflight[i].pc = "idle"
  /\ LET portfolio_row == SelectPortfolio(portfolios, portfolio_name)
         sec   == ensure_security_exists(securities, symbol, "info")
         error == IF portfolio_row = {} THEN "ValueError"
                  ELSE IF sec.error # "none" THEN sec.error
                  ELSE IF ~TransactionTypeCheck(transaction_type) THEN "IntegrityError"
                  ELSE "none"
         c     == Running(i, IF error = "none" THEN "logged" ELSE "failed",
                          portfolio_name, symbol, quantity, price, transaction_type,
                          {}, error)
     IN  /\ securities' = IF portfolio_row = {} THEN securities ELSE sec.securities
         /\ transactions' = IF error = "none"
                            THEN Append(transactions,
                                        TransactionRow(portfolio_name, symbol, quantity,
                                                       price, transaction_type))
                            ELSE transactions
         /\ inflight' = c
         /\ last' = IF error = "none" THEN last ELSE Returned(c[i], error)
         /\ report' = IF error = "none" THEN report ELSE NoReport
  /\ UNCHANGED <<variant, history, portfolios, positions, market_data, clock>>

\* _update_position (persistent), its SELECT: the rows of the key as they
\* are now.
read_position(i) ==
  /\ variant = "persistent"
  /\ inflight[i].pc = "logged"
  /\ inflight' = [inflight EXCEPT
                    ![i].pc = "read",
                    ![i].read = SelectPosition(positions, inflight[i].portfolio_name,
                                               inflight[i].symbol)]
  /\ UNCHANGED <<variant, history, portfolios, securities, positions, transactions,
                 market_data, clock, last, report>>

\* What _update_position (persistent) writes for the rows it has read:
\* UPDATE ... WHERE portfolio_id = ? AND symbol = ? with the values computed
\* from them, or the INSERT, which UNIQUE(portfolio_id, symbol) refuses when
\* the key has a row by now; nothing when the new quantity is negative or a
\* SELL found no row.
write_position_persistent(pos, read, portfolio_id, symbol, quantity, price, transaction_type) ==
  LET computed == update_position_persistent(read, portfolio_id, symbol, quantity,
                                             price, transaction_type)
      now      == SelectPosition(pos, portfolio_id, symbol)
  IN  IF computed = read
      THEN [error |-> "none", positions |-> pos]
      ELSE IF read = {}
      THEN IF now # {}
           THEN [error |-> "IntegrityError", positions |-> pos]
           ELSE [error |-> "none", positions |-> pos \cup computed]
      ELSE [error |-> "none",
            positions |-> IF now = {} THEN pos ELSE (pos \ now) \cup computed]

\* _update_position (persistent), its write and commit, and the return of
\* add_transaction.
write_position(i) ==
  /\ variant = "persistent"
  /\ inflight[i].pc = "read"
  /\ LET c == inflight[i]
         w == write_position_persistent(positions, c.read, c.portfolio_name, c.symbol,
                                        c.quantity, c.price, c.transaction_type)
     IN  /\ positions' = w.positions
         /\ inflight' = [inflight EXCEPT
                           ![i].pc = IF w.error = "none" THEN "done" ELSE "failed",
                           ![i].error = w.error]
         /\ last' = Returned(c, w.error)
         /\ report' = NoReport
  /\ UNCHANGED <<variant, history, portfolios, securities, transactions, market_data,
                 clock>>

\* add_transaction (per-call) up to its first write: connect and look the
\* portfolio up.
begin_percall(i, portfolio_name, symbol, quantity, price, transaction_type) ==
  /\ variant = "percall"
  /\ inflight[i].pc = "idle"
  /\ LET error == IF SelectPortfolio(portfolios, portfolio_name) = {}
                  THEN "ValueError" ELSE "none"
         c     == Running(i, IF error = "none" THEN "found" ELSE "failed",
                          portfolio_name, symbol, quantity, price, transaction_type,
                          {}, error)
     IN  /\ inflight' = c
         /\ last' = IF error = "none" THEN last ELSE Returned(c[i], error)
         /\ report' = IF error = "none" THEN report ELSE NoReport
  /\ UNCHANGED <<variant, history, portfolios, securities, positions, transactions,
                 market_data, clock>>

\* add_transaction (per-call) from the INSERT into transactions to the
\* commit: the INSERT takes the write lock, so that _update_position reads
\* and writes the position with no other connection writing in between.
commit_percall(i) ==
  /\ variant = "percall"
  /\ inflight[i].pc = "found"
  /\ LET c   == inflight[i]
         out == percall_outcome(c.portfolio_name, c.symbol, c.quantity, c.price,
                                c.transaction_type, "info", "none")
     IN  /\ securities' = out.securities
         /\ transactions' = out.transactions
         /\ positions' = out.positions
         /\ inflight' = [inflight EXCEPT
                           ![i].pc = IF out.error = "none" THEN "done" ELSE "failed",
                           ![i].error = out.error]
         /\ last' = Returned(c, out.error)
         /\ report' = NoReport
  /\ UNCHANGED <<variant, history, portfolios, market_data, clock>>

\* ------------------------------------------------------ the price refresh

\* The primary key of market_data: (symbol, timestamp) in the demo schema of
\* the persistent-connection tracker, symbol in that of the per-call one.
market_data_key(v, r) ==
  IF v = "persistent" THEN <<r.symbol, r.timestamp>> ELSE <<r.symbol>>

\* get_live_prices that lets the first failed request escape: nothing is
\* returned when a symbol of the list has no quote.
get_live_prices_raising(symbols, quote) ==
  IF \E s \in symbols : quote[s] = NoQuote
  THEN [error |-> "Exception", prices |-> {}]
  ELSE [error |-> "none",
        prices |-> {[symbol |-> s, price |-> quote[s]] : s \in symbols}]

\* MarketDataService.get_live_prices: the dictionary symbol -> price of the
\* symbols that have a quote; a symbol whose request raises, or that has
\* neither a current price nor a day of history, is logged and skipped.
get_live_prices(symbols, quote) ==
  [error |-> "none",
   prices |-> {[symbol |-> s, price |-> quote[s]] :
                 s \in {x \in symbols : quote[x] # NoQuote}}]

\* INSERT OR REPLACE INTO market_data (symbol, price, timestamp, ...) for
\* every entry of the dictionary: a row replaces the rows sharing its key.
StorePrices(v, md, prices, now) ==
  LET new == {MarketDataRow(p.symbol, p.price, now) : p \in prices}
  IN  {r \in md : \A n \in new : market_data_key(v, r) # market_data_key(v, n)}
        \cup new

\* MarketDataService.update_all_market_data: get_live_prices, then
\* store_market_data for each price (own connection, committed at once).
update_all_market_data(md, symbols, quote, now) ==
  LET live == get_live_prices(symbols, quote)
  IN  [error |-> live.error, prices |-> live.prices,
       market_data |-> IF live.error = "none"
                       THEN StorePrices("percall", md, live.prices, now)
                       ELSE md]

RefreshCall(symbols_arg, quote, error) ==
  [Call("update_market_data", "", "", 0, 0, "", "ok", error)
     EXCEPT !.symbols = symbols_arg, !.quote = quote]

\* A refresh that also marks the positions to market: the average cost of a
\* position whose symbol got a price becomes that price.
update_market_data_repricing(symbols_arg, quote) ==
  /\ variant = "persistent"
  /\ LET symbols == IF symbols_arg.given
                    THEN symbols_arg.list
                    ELSE {r.symbol : r \in {x \in positions : x.quantity > 0}}
         live    == get_live_prices(symbols, quote)
         marked(r) == IF \E p \in live.prices : p.symbol = r.symbol
                      THEN [r EXCEPT !.average_cost =
                              (CHOOSE p \in live.prices : p.symbol = r.symbol).price]
                      ELSE r
     IN  /\ market_data' = StorePrices(variant, market_data, live.prices, clock)
         /\ positions' = {marked(r) : r \in positions}
         /\ last' = RefreshCall(symbols_arg, quote, live.error)
  /\ report' = NoReport
  /\ UNCHANGED <<variant, history, inflight, portfolios, securities, transactions, clock>>

\* PortfolioTracker.update_market_data of the persistent-connection tracker.
\* The whole body runs in one try whose except clause only logs.
update_market_data_persistent(symbols_arg, quote) ==
  /\ variant = "persistent"
  /\ LET symbols == IF symbols_arg.given
                    THEN symbols_arg.list
                    ELSE {r.symbol : r \in {x \in positions : x.quantity > 0}}
         live    == get_live_prices(symbols, quote)
     IN  IF symbols = {}
         THEN /\ market_data' = market_data
              /\ last' = RefreshCall(symbols_arg, quote, "none")
         ELSE /\ market_data' = IF live.error = "none"
                                THEN StorePrices(variant, market_data, live.prices, clock)
                                ELSE market_data
              /\ last' = RefreshCall(symbols_arg, quote, live.error)
  /\ report' = NoReport
  /\ UNCHANGED <<variant, history, inflight, portfolios, securities, positions, transactions, clock>>

\* PortfolioTracker.update_market_data of the per-call-connection tracker:
\* every symbol of the positions table, through update_all_market_data; it
\* returns the dictionary of the prices, {} when anything raised.
update_market_data_percall(quote) ==
  /\ variant = "percall"
  /\ LET symbols == {r.symbol : r \in positions}
         up      == update_all_market_data(market_data, symbols, quote, clock)
     IN  IF symbols = {}
         THEN /\ market_data' = market_data
              /\ last' = RefreshCall(NoSymbols, quote, "none")
              /\ report' = NoReport
         ELSE /\ market_data' = up.market_data
              /\ last' = RefreshCall(NoSymbols, quote, up.error)
              /\ report' = [NoReport EXCEPT !.prices = up.prices]
  /\ UNCHANGED <<variant, history, inflight, portfolios, securities, positions, transactions, clock>>

\* A second passes.
Tick ==
  /\ clock < MaxClock
  /\ clock' = clock + 1
  /\ UNCHANGED <<variant, history, inflight, portfolios, securities, positions, transactions,
                 market_data, last, report>>

\* ---------------------------------------------------------- SQLite values

\* An SQL value: NULL, an INTEGER or a REAL; the number is the fraction n/d.
SqlNull       == [n |-> 0, d |-> 1, type |-> "null"]
SqlInteger(k) == [n |-> k, d |-> 1, type |-> "integer"]
SqlReal(x)    == [n |-> x.n, d |-> x.d, type |-> "real"]

IsNull(a)   == a.type = "null"
BothInt(a, b) == a.type = "integer" /\ b.type = "integer"

\* What a numeric column holds for the number x.  The DECIMAL columns of the
\* persistent tracker's schema have NUMERIC affinity, which stores a float
\* without fractional part as an INTEGER; the REAL columns of the per-call
\* tracker's schema store every number as a REAL.
Column(v, x) ==
  IF v = "persistent" /\ x.d = 1 THEN SqlInteger(x.n) ELSE SqlReal(x)

\* md.price of a joined row: NULL when the LEFT JOIN found no price row.
PriceColumn(v, x) == IF x = NoQuote THEN SqlNull ELSE Column(v, x)

SqlAdd(a, b) ==
  IF IsNull(a) \/ IsNull(b) THEN SqlNull
  ELSE IF BothInt(a, b) THEN SqlInteger(a.n + b.n)
  ELSE SqlReal(Rat(a.n * b.d + b.n * a.d, a.d * b.d))

SqlSub(a, b) ==
  IF IsNull(a) \/ IsNull(b) THEN SqlNull
  ELSE IF BothInt(a, b) THEN SqlInteger(a.n - b.n)
  ELSE SqlReal(Rat(a.n * b.d - b.n * a.d, a.d * b.d))

SqlMul(a, b) ==
  IF IsNull(a) \/ IsNull(b) THEN SqlNull
  ELSE IF BothInt(a, b) THEN SqlInteger(a.n * b.n)
  ELSE SqlReal(Rat(a.n * b.n, a.d * b.d))

\* The division that never truncates.
SqlDivReal(a, b) ==
  IF IsNull(a) \/ IsNull(b) \/ b.n = 0 THEN SqlNull
  ELSE SqlReal(Rat(a.n * b.d, a.d * b.n))

\* a / b: NULL when b is 0, the quotient truncated toward zero when both
\* operands are INTEGERs.
SqlDiv(a, b) ==
  IF IsNull(a) \/ IsNull(b) \/ b.n = 0 THEN SqlNull
  ELSE IF BothInt(a, b)
       THEN SqlInteger((IF (a.n < 0) = (b.n < 0) THEN 1 ELSE -1)
                         * (Abs(a.n) \div Abs(b.n)))
       ELSE SqlReal(Rat(a.n * b.d, a.d * b.n))

Coalesce(a, b) == IF IsNull(a) THEN b ELSE a

\* a < b in the order of ORDER BY: NULL sorts below every number.
SqlLess(a, b) ==
  IF IsNull(b) THEN FALSE
  ELSE IF IsNull(a) THEN TRUE
  ELSE a.n * b.d < b.n * a.d

RECURSIVE Pow10(_)
Pow10(k) == IF k = 0 THEN 1 ELSE 10 * Pow10(k - 1)

\* ROUND(a, k): a REAL, half away from zero; NULL stays NULL.
SqlRound(a, k) ==
  IF IsNull(a) THEN SqlNull
  ELSE SqlReal(Rat((IF a.n < 0 THEN -1 ELSE 1)
                     * ((2 * Abs(a.n) * Pow10(k) + a.d) \div (2 * a.d)),
                   Pow10(k)))

\* PRINTF('%.kf', a): the number the text shows, NULL printed as 0.
Printf(a, k) == IF IsNull(a) THEN SqlReal(RatOfInt(0)) ELSE SqlRound(a, k)

\* SUM(col) over a set of joined rows: NULL over no row.
RECURSIVE SqlSum(_, _)
SqlSum(rows, col) ==
  IF rows = {} THEN SqlNull
  ELSE LET r    == CHOOSE x \in rows : TRUE
           rest == SqlSum(rows \ {r}, col)
       IN  IF IsNull(r[col]) THEN rest
           ELSE IF IsNull(rest) THEN r[col]
           ELSE SqlAdd(rest, r[col])

\* The orders ORDER BY col DESC (and DataFrame.sort_values(col,
\* ascending=False)) may return a set of rows in: rows with equal keys come
\* in any order.
RECURSIVE Descending(_, _)
Descending(rows, col) ==
  IF rows = {} THEN {<<>>}
  ELSE UNION {{<<m>> \o s : s \in Descending(rows \ {m}, col)} :
                m \in {x \in rows : \A y \in rows : ~SqlLess(x[col], y[col])}}

\* The orders a query without ORDER BY may return its rows in.
RECURSIVE AnyOrder(_)
AnyOrder(rows) ==
  IF rows = {} THEN {<<>>}
  ELSE UNION {{<<m>> \o s : s \in AnyOrder(rows \ {m})} : m \in rows}

FirstRows(s, k) == SubSeq(s, 1, IF k < Len(s) THEN k ELSE Len(s))
LastRows(s, k) == SubSeq(s, IF Len(s) > k THEN Len(s) - k + 1 ELSE 1, Len(s))

\* ------------------------------------------------------ the valuation queries

\* head(5) and tail(5) of get_winners_losers.
TopN == 5

NoPriceRow(s) == MarketDataRow(s, NoQuote, -1)

\* positions pos LEFT JOIN market_data md ON pos.symbol = md.symbol: one row
\* per pair of a position and a price row of its symbol, one row with a
\* NULL price for a position whose symbol has none.  Every row carries the
\* expressions the queries select; portfolio_id and price_time are not
\* columns of a frame, they tell joined rows apart.
JoinedRow(v, r, m) ==
  LET q     == Column(v, RatOfInt(r.quantity))
      c     == Column(v, r.average_cost)
      price == PriceColumn(v, m.price)
      e     == Coalesce(price, c)
  IN  [portfolio_id |-> r.portfolio_id, Symbol |-> r.symbol,
       price_time |-> m.timestamp,
       quantity |-> q, average_cost |-> c, price |-> price, effective |-> e,
       cost |-> SqlMul(q, c), value |-> SqlMul(q, e)]

LeftJoinMarketData(v, pos, md) ==
  UNION {{JoinedRow(v, r, m) :
            m \in IF \E x \in md : x.symbol = r.symbol
                  THEN {x \in md : x.symbol = r.symbol}
                  ELSE {NoPriceRow(r.symbol)}} : r \in pos}

\* ROUND(((COALESCE(md.price, pos.average_cost) - pos.average_cost)
\*          / pos.average_cost) * 100, 1)
ReturnPercent_persistent(j) ==
  SqlRound(SqlMul(SqlDiv(SqlSub(j.effective, j.average_cost), j.average_cost),
                  SqlInteger(100)), 1)

\* The row of get_top_holdings (persistent) for one joined row.
TopHoldingRow_persistent(j) ==
  [portfolio_id |-> j.portfolio_id, Symbol |-> j.Symbol, price_time |-> j.price_time,
   Live_Price   |-> SqlRound(j.effective, 2),
   Shares       |-> j.quantity,
   Market_Value |-> SqlRound(j.value, 2),
   Cost_Basis   |-> SqlRound(j.cost, 2),
   Total_Return |-> ReturnPercent_persistent(j)]

\* The row of get_winners_losers for one joined row.
WinnerRow(j) ==
  [portfolio_id |-> j.portfolio_id, Symbol |-> j.Symbol, price_time |-> j.price_time,
   Live_Price   |-> SqlRound(j.effective, 2),
   Market_Value |-> SqlRound(j.value, 2),
   Total_Return |-> ReturnPercent_persistent(j),
   PL_Amount    |-> SqlRound(SqlMul(j.quantity,
                                    SqlSub(j.effective, j.average_cost)), 2)]

\* holdings_persistent without the condition pos.quantity > 0.
holdings_persistent_all(pos, md, pf, sec, portfolio_name) ==
  LeftJoinMarketData("persistent",
     {r \in pos : /\ r.portfolio_id \in pf
                  /\ r.symbol \in sec
                  /\ (portfolio_name # "" => r.portfolio_id = portfolio_name)},
     md)

\* The FROM and WHERE clauses of get_top_holdings and get_winners_losers
\* (persistent): positions JOIN portfolios JOIN securities LEFT JOIN
\* market_data WHERE pos.quantity > 0 [AND p.name = ?].
holdings_persistent(pos, md, pf, sec, portfolio_name) ==
  LeftJoinMarketData("persistent",
     {r \in pos : /\ r.quantity > 0
                  /\ r.portfolio_id \in pf
                  /\ r.symbol \in sec
                  /\ (portfolio_name # "" => r.portfolio_id = portfolio_name)},
     md)

\* PortfolioTracker.get_top_holdings (persistent): the frames it may return.
get_top_holdings_persistent(pos, md, pf, sec, portfolio_name, limit) ==
  {FirstRows(s, limit) :
     s \in Descending({TopHoldingRow_persistent(j) :
                         j \in holdings_persistent(pos, md, pf, sec, portfolio_name)},
                      "Market_Value")}

\* PortfolioTracker.get_winners_losers (persistent): the pairs of frames it
\* may return.
get_winners_losers(pos, md, pf, sec, portfolio_name) ==
  {[rows |-> FirstRows(s, TopN), losers |-> LastRows(s, TopN)] :
     s \in Descending({WinnerRow(j) :
                         j \in holdings_persistent(pos, md, pf, sec, portfolio_name)},
                      "Total_Return")}

\* The row of get_portfolio_summary (persistent) for one portfolio:
\* aggregates over the joined rows of its positions with quantity > 0.
SummaryRow_persistent(pos, md, p) ==
  LET rows == LeftJoinMarketData("persistent",
                {r \in pos : r.portfolio_id = p /\ r.quantity > 0}, md)
      cb   == SqlSum(rows, "cost")
      mv   == SqlSum(rows, "value")
  IN  [Portfolio     |-> p,
       Positions     |-> Cardinality(rows),
       Cost_Basis    |-> SqlRound(cb, 2),
       Market_Value  |-> SqlRound(mv, 2),
       Unrealized_PL |-> SqlRound(SqlSub(mv, cb), 2),
       Total_Return  |-> SqlRound(SqlMul(SqlDiv(SqlSub(mv, cb), cb),
                                         SqlInteger(100)), 1)]

\* PortfolioTracker.get_portfolio_summary (persistent): one row per
\* portfolio HAVING COUNT(pos.symbol) > 0, ORDER BY Market_Value DESC.
get_portfolio_summary_persistent(pos, md, pf, portfolio_name) ==
  Descending({x \in {SummaryRow_persistent(pos, md, p) :
                       p \in {n \in pf : portfolio_name # "" => n = portfolio_name}} :
                x.Positions > 0},
             "Market_Value")

\* PortfolioTracker.get_database_stats (persistent): the dictionary.
get_database_stats(pos, md, pf, sec, txs) ==
  LET open  == {r \in pos : r.quantity > 0}
      total == SqlSum(LeftJoinMarketData("persistent", open, md), "value")
  IN  [portfolios   |-> Cardinality(pf),
       securities   |-> Cardinality(sec),
       positions    |-> Cardinality(open),
       transactions |-> Len(txs),
       total_market_value |->
          SqlRound(IF IsNull(total) \/ total.n = 0 THEN SqlInteger(0) ELSE total, 2)]

\* The FROM and WHERE clauses of the per-call tracker's position queries:
\* positions LEFT JOIN portfolios LEFT JOIN securities LEFT JOIN market_data
\* [WHERE p.name = ?]; no condition on the quantity.
holdings_percall(pos, md, pf, portfolio_name) ==
  LeftJoinMarketData("percall",
     {r \in pos : portfolio_name # "" =>
                    (r.portfolio_id \in pf /\ r.portfolio_id = portfolio_name)},
     md)

\* ((COALESCE(md.price, pos.avg_cost) / pos.avg_cost) - 1) * 100
ReturnPercent_percall(j) ==
  SqlMul(SqlSub(SqlDiv(j.effective, j.average_cost), SqlInteger(1)), SqlInteger(100))

TopHoldingRow_percall(j) ==
  [portfolio_id |-> j.portfolio_id, Symbol |-> j.Symbol, price_time |-> j.price_time,
   Live_Price   |-> Printf(j.effective, 2),
   Market_Value |-> Printf(j.value, 0),
   Total_Return |-> Printf(ReturnPercent_percall(j), 1)]

MapRows(s, Row(_)) == [i \in 1..Len(s) |-> Row(s[i])]

\* PortfolioTracker.get_top_holdings (per-call): ORDER BY pos.quantity *
\* COALESCE(md.price, pos.avg_cost) DESC LIMIT limit.
get_top_holdings_percall(pos, md, pf, portfolio_name, limit) ==
  {MapRows(FirstRows(s, limit), TopHoldingRow_percall) :
     s \in Descending(holdings_percall(pos, md, pf, portfolio_name), "value")}

PositionDetailRow(j) ==
  [portfolio_id |-> j.portfolio_id, symbol |-> j.Symbol, price_time |-> j.price_time,
   quantity |-> j.quantity, avg_cost |-> j.average_cost, current_price |-> j.price,
   cost_basis |-> j.cost, market_value |-> j.value,
   return_percent |-> ReturnPercent_percall(j)]

\* PortfolioTracker.get_positions_detail (per-call).
get_positions_detail(pos, md, pf, portfolio_name) ==
  {MapRows(s, PositionDetailRow) :
     s \in Descending(holdings_percall(pos, md, pf, portfolio_name), "value")}

\* The row of get_portfolio_summary (per-call) over the joined rows of the
\* positions of the portfolios ps; the name is NULL ("") over no portfolio.
SummaryRow_percall(pos, md, ps, name) ==
  LET rows == LeftJoinMarketData("percall", {r \in pos : r.portfolio_id \in ps}, md)
      cb   == SqlSum(rows, "cost")
      mv   == SqlSum(rows, "value")
  IN  [Portfolio     |-> name,
       Positions     |-> Cardinality(rows),
       Cost_Basis    |-> Printf(cb, 0),
       Market_Value  |-> Printf(mv, 0),
       Unrealized_PL |-> Printf(SqlSub(mv, cb), 0),
       Total_Return  |-> Printf(SqlMul(SqlSub(SqlDiv(mv, cb), SqlInteger(1)),
                                       SqlInteger(100)), 1)]

\* PortfolioTracker.get_portfolio_summary (per-call): with a name one
\* aggregate row WHERE p.name = ?, without one a row per portfolio (GROUP
\* BY), closed or not, in no stated order.
get_portfolio_summary_percall(pos, md, pf, portfolio_name) ==
  IF portfolio_name # ""
  THEN {<<SummaryRow_percall(pos, md, {n \in pf : n = portfolio_name},
                             IF portfolio_name \in pf THEN portfolio_name ELSE "")>>}
  ELSE AnyOrder({SummaryRow_percall(pos, md, {p}, p) : p \in pf})

\* PortfolioTracker.get_performance_analytics (per-call): the dictionary, {}
\* (no row) for a portfolio without positions.  The figures are computed by
\* pandas in floating point; the metrics that need the price history
\* (average_stock_return, portfolio_volatility) are left out.
get_performance_analytics(pos, md, pf, portfolio_name) ==
  LET rows == LeftJoinMarketData("percall",
                {r \in pos : r.portfolio_id \in pf /\ r.portfolio_id = portfolio_name}, md)
      total_cost    == SqlSum(rows, "cost")
      total_value   == SqlSum(rows, "value")
      unrealized_pl == SqlSub(total_value, total_cost)
  IN  IF rows = {} THEN <<>>
      ELSE <<[portfolio_id |-> portfolio_name,
              total_cost_basis     |-> total_cost,
              current_market_value |-> total_value,
              unrealized_pnl       |-> unrealized_pl,
              total_return_percent |->
                 IF total_cost.n > 0
                 THEN SqlMul(SqlDivReal(unrealized_pl, total_cost), SqlInteger(100))
                 ELSE SqlInteger(0),
              number_of_positions  |-> Cardinality(rows)]>>

\* A query that keeps what it derived: the average cost it used in place of
\* a missing price is stored as the price of the symbol.
QueryCaching(op, portfolio_name, limit, frame) ==
  /\ report' = frame
  /\ last' = [Call(op, portfolio_name, "", 0, 0, "", "ok", "none") EXCEPT !.limit = limit]
  /\ market_data' = market_data \cup
        {MarketDataRow(r.symbol, r.average_cost, clock) :
           r \in {x \in positions : \A m \in market_data : m.symbol # x.symbol}}
  /\ UNCHANGED <<variant, history, inflight, portfolios, securities, positions, transactions,
                 clock>>

\* A query: it returns its frame and writes nothing.
Query(op, portfolio_name, limit, frame) ==
  /\ report' = frame
  /\ last' = [Call(op, portfolio_name, "", 0, 0, "", "ok", "none") EXCEPT !.limit = limit]
  /\ UNCHANGED <<variant, history, inflight, portfolios, securities, positions, transactions,
                 market_data, clock>>

Frame(rows) == [NoReport EXCEPT !.rows = rows]

get_portfolio_summary(portfolio_name) ==
  \E rows \in IF variant = "persistent"
              THEN get_portfolio_summary_persistent(positions, market_data, portfolios,
                                                    portfolio_name)
              ELSE get_portfolio_summary_percall(positions, market_data, portfolios,
                                                 portfolio_name) :
     Query("get_portfolio_summary", portfolio_name, 0, Frame(rows))

get_top_holdings(portfolio_name, limit) ==
  \E rows \in IF variant = "persistent"
              THEN get_top_holdings_persistent(positions, market_data, portfolios,
                                               securities, portfolio_name, limit)
              ELSE get_top_holdings_percall(positions, market_data, portfolios,
                                            portfolio_name, limit) :
     Query("get_top_holdings", portfolio_name, limit, Frame(rows))

get_winners_losers_call(portfolio_name) ==
  /\ variant = "persistent"
  /\ \E wl \in get_winners_losers(positions, market_data, portfolios, securities,
                                   portfolio_name) :
       Query("get_winners_losers", portfolio_name, 0,
             [NoReport EXCEPT !.rows = wl.rows, !.losers = wl.losers])

get_database_stats_call ==
  /\ variant = "persistent"
  /\ Query("get_database_stats", "", 0,
           Frame(<<get_database_stats(positions, market_data, portfolios, securities,
                                      transactions)>>))

get_positions_detail_call(portfolio_name) ==
  /\ variant = "percall"
  /\ \E rows \in get_positions_detail(positions, market_data, portfolios,
                                       portfolio_name) :
       Query("get_positions_detail", portfolio_name, 0, Frame(rows))

get_performance_analytics_call(portfolio_name) ==
  /\ variant = "percall"
  /\ Query("get_performance_analytics", portfolio_name, 0,
           Frame(get_performance_analytics(positions, market_data, portfolios,
                                           portfolio_name)))

\* limit=100 of the get_top_holdings call in export_portfolio_data.
ExportLimit == 100

\* SELECT ... FROM transactions t JOIN portfolios p ... WHERE p.name = ?:
\* the rows of the log the export writes.
get_transaction_history(txs, pf, portfolio_name) ==
  SelectSeq(txs, LAMBDA t : t.portfolio_id = portfolio_name /\ t.portfolio_id \in pf)

\* PortfolioTracker.export_portfolio_data, both variants: the frames of the
\* summary, of the holdings (persistent: get_top_holdings with limit 100;
\* per-call: get_positions_detail) and of the portfolio's transactions are
\* written to CSV files; the store is only read and no frame is returned.
export_portfolio_data(portfolio_name) ==
  \E summary \in IF variant = "persistent"
                 THEN get_portfolio_summary_persistent(positions, market_data, portfolios,
                                                       portfolio_name)
                 ELSE get_portfolio_summary_percall(positions, market_data, portfolios,
                                                    portfolio_name),
     holdings \in IF variant = "persistent"
                  THEN get_top_holdings_persistent(positions, market_data, portfolios,
                                                   securities, portfolio_name, ExportLimit)
                  ELSE get_positions_detail(positions, market_data, portfolios,
                                            portfolio_name) :
       LET history_rows == get_transaction_history(transactions, portfolios, portfolio_name)
       IN  /\ Len(history_rows) <= Len(transactions)
           /\ Query("export_portfolio_data", portfolio_name, 0, NoReport)

\* The portfolio argument of a query: "" stands for None.
QueryNames == {""} \cup PortfolioNames
Limits     == {1, 2}

Queries ==
  \/ \E pn \in QueryNames : get_portfolio_summary(pn)
  \/ \E pn \in QueryNames, limit \in Limits : get_top_holdings(pn, limit)
  \/ \E pn \in QueryNames : get_winners_losers_call(pn)
  \/ get_database_stats_call
  \/ \E pn \in PortfolioNames : get_positions_detail_call(pn)
  \/ \E pn \in PortfolioNames : get_performance_analytics_call(pn)

\* ---------------------------------------------------------- specifications

\* Calls within the contract's input domain, on a store that does not fail.
Next ==
  \/ \E name \in PortfolioNames : create_portfolio(name)
  \/ \E pn \in PortfolioNames, s \in Symbols, q \in Quantities, p \in Prices,
        t \in Types, info \in InfoOutcomes :
          add_transaction_persistent(pn, s, q, p, t, info, "none")
  \/ \E pn \in PortfolioNames, s \in Symbols, q \in Quantities, p \in Prices,
        t \in Types, info \in InfoOutcomes :
          add_transaction_percall(pn, s, q, p, t, info, "none")

Spec == Init /\ [][Next]_vars

\* Calls with arguments outside the contract's input domain (a quantity or
\* a price that is not positive, a type that is neither BUY nor SELL), on
\* one key.
NextAny ==
  \/ \E name \in AnyPortfolioNames : create_portfolio(name)
  \/ \E pn \in AnyPortfolioNames, s \in AnySymbols, q \in AnyQuantities,
        p \in AnyPrices, t \in AnyTypes, info \in InfoOutcomes :
          add_transaction_persistent(pn, s, q, p, t, info, "none")
  \/ \E pn \in AnyPortfolioNames, s \in AnySymbols, q \in AnyQuantities,
        p \in AnyPrices, t \in AnyTypes, info \in InfoOutcomes :
          add_transaction_percall(pn, s, q, p, t, info, "none")

SpecAny == Init /\ [][NextAny]_vars

\* Calls within the input domain on a store whose writes may fail: the
\* INSERT into transactions or the write of _update_position raises.
NextFault ==
  \/ \E name \in AnyPortfolioNames : create_portfolio(name)
  \/ \E pn \in AnyPortfolioNames, s \in Symbols, q \in Quantities, p \in Prices,
        t \in Types, info \in InfoOutcomes, fault \in Faults :
          add_transaction_persistent(pn, s, q, p, t, info, fault)
  \/ \E pn \in AnyPortfolioNames, s \in Symbols, q \in Quantities, p \in Prices,
        t \in Types, info \in InfoOutcomes, fault \in Faults :
          add_transaction_percall(pn, s, q, p, t, info, fault)

SpecFault == Init /\ [][NextFault]_vars

\* A book lists positions, each with the transactions that built it; a
\* store holds the positions of some entries of a book and their logs.
BookEntry(pid, s, q, c, log) == [row |-> PositionRow(pid, s, q, c), log |-> log]
Buy(pid, s, q, p)  == TransactionRow(pid, s, q, p, "BUY")
Sell(pid, s, q, p) == TransactionRow(pid, s, q, p, "SELL")

RECURSIVE BookLog(_, _, _)
BookLog(book, chosen, i) ==
  IF i = 0 THEN <<>>
  ELSE BookLog(book, chosen, i - 1) \o (IF i \in chosen THEN book[i].log ELSE <<>>)

\* The per-call-connection tracker has deleted the row of a closed position.
InitBook(book, chosen) ==
  /\ portfolios = PortfolioNames
  /\ positions = {book[i].row :
                    i \in {j \in chosen : variant = "persistent"
                                            \/ book[j].row.quantity > 0}}
  /\ securities = {book[i].row.symbol : i \in chosen}
  /\ transactions = BookLog(book, chosen, Len(book))

\* Price refreshes as time passes, on a store that holds some of these
\* positions; the persistent-connection tracker keeps the row of a closed
\* position.
RefreshBook(v) ==
  <<BookEntry("Growth", "AAPL", 1, RatOfInt(1), <<Buy("Growth", "AAPL", 1, 1)>>),
    BookEntry("Income", "MSFT", 2, RatOfInt(2), <<Buy("Income", "MSFT", 2, 2)>>)>>
    \o (IF v = "persistent"
        THEN <<BookEntry("Income", "AAPL", 0, RatOfInt(2),
                         <<Buy("Income", "AAPL", 1, 2), Sell("Income", "AAPL", 1, 1)>>)>>
        ELSE <<>>)

\* The quotes of one refresh: AAPL at either price or without a quote, MSFT
\* at one price or without a quote.
QuoteMaps == {f \in [Symbols -> Quotes] : f["MSFT"] \in {NoQuote, RatOfInt(1)}}

SymbolArgs == {NoSymbols} \cup {[given |-> TRUE, list |-> l] : l \in SUBSET Symbols}

InitRefresh ==
  /\ variant \in {"persistent", "percall"}
  /\ \E chosen \in SUBSET (1..Len(RefreshBook(variant))) :
       InitBook(RefreshBook(variant), chosen)
  /\ market_data = {}
  /\ clock = 0
  /\ last = [NoCall EXCEPT !.pre = Snapshot]
  /\ report = NoReport
  /\ history = Len(transactions)
  /\ inflight = [i \in Trackers |-> Idle]

NextRefresh ==
  \/ \E a \in SymbolArgs, quote \in QuoteMaps :
        update_market_data_persistent(a, quote)
  \/ \E quote \in QuoteMaps : update_market_data_percall(quote)
  \/ Tick

SpecRefresh == InitRefresh /\ [][NextRefresh]_vars

\* Price refreshes and valuation queries.
NextPriced ==
  \/ NextRefresh
  \/ Queries

SpecPriced == InitRefresh /\ [][NextPriced]_vars

\* Transactions within the input domain on the symbols of one portfolio, and
\* valuation queries; the security information is found and no price is
\* ever stored.
NextQuery ==
  \/ \E name \in AnyPortfolioNames : create_portfolio(name)
  \/ \E pn \in AnyPortfolioNames, s \in Symbols, q \in Quantities, p \in Prices,
        t \in Types :
          add_transaction_persistent(pn, s, q, p, t, "info", "none")
  \/ \E pn \in AnyPortfolioNames, s \in Symbols, q \in Quantities, p \in Prices,
        t \in Types :
          add_transaction_percall(pn, s, q, p, t, "info", "none")
  \/ Queries

SpecQuery == Init /\ [][NextQuery]_vars

\* The rankings, on a store that holds some of these positions of six
\* symbols, a live price for every symbol held (MSFT may have none) and, in
\* the persistent-connection tracker, possibly an older price row of MSFT.
RankSymbols == {"AAPL", "AMZN", "GOOG", "META", "MSFT", "TSLA"}

RankBook ==
  <<BookEntry("Growth", "AAPL", 2, [n |-> 5, d |-> 2],
              <<Buy("Growth", "AAPL", 1, 2), Buy("Growth", "AAPL", 1, 3)>>),
    BookEntry("Growth", "AMZN", 1, [n |-> 5, d |-> 2],
              <<Buy("Growth", "AMZN", 1, 2), Buy("Growth", "AMZN", 1, 3),
                Sell("Growth", "AMZN", 1, 3)>>),
    BookEntry("Growth", "GOOG", 1, [n |-> 5, d |-> 2],
              <<Buy("Growth", "GOOG", 1, 2), Buy("Growth", "GOOG", 1, 3),
                Sell("Growth", "GOOG", 1, 3)>>),
    BookEntry("Growth", "META", 2, [n |-> 5, d |-> 2],
              <<Buy("Growth", "META", 1, 2), Buy("Growth", "META", 1, 3)>>),
    BookEntry("Growth", "MSFT", 3, RatOfInt(1), <<Buy("Growth", "MSFT", 3, 1)>>),
    BookEntry("Growth", "TSLA", 1, RatOfInt(4), <<Buy("Growth", "TSLA", 1, 4)>>),
    BookEntry("Income", "AAPL", 3, RatOfInt(2), <<Buy("Income", "AAPL", 3, 2)>>)>>

\* The quote of each symbol: +20%, +5%, -10% and -30% on an average cost of
\* 5/2, the average cost of MSFT, and 3 for TSLA.
RankPrice(s) ==
  CASE s = "AAPL" -> RatOfInt(3)
    [] s = "AMZN" -> [n |-> 21, d |-> 8]
    [] s = "GOOG" -> [n |-> 9, d |-> 4]
    [] s = "META" -> [n |-> 7, d |-> 4]
    [] s = "MSFT" -> RatOfInt(1)
    [] s = "TSLA" -> RatOfInt(3)

InitRank ==
  /\ variant \in {"persistent", "percall"}
  /\ \E chosen \in SUBSET (1..Len(RankBook)) : InitBook(RankBook, chosen)
  /\ clock = 1
  /\ \E unpriced \in SUBSET ({"MSFT"} \cap securities), stale \in BOOLEAN :
       LET priced == securities \ unpriced IN
       /\ stale => (variant = "persistent" /\ "MSFT" \in priced)
       /\ market_data = {MarketDataRow(s, RankPrice(s), clock) : s \in priced}
                          \cup (IF stale THEN {MarketDataRow("MSFT", RatOfInt(2), 0)}
                                ELSE {})
  /\ last = [NoCall EXCEPT !.pre = Snapshot, !.now = clock]
  /\ report = NoReport
  /\ history = Len(transactions)
  /\ inflight = [i \in Trackers |-> Idle]

NextRank ==
  \/ \E pn \in QueryNames, limit \in Limits : get_top_holdings(pn, limit)
  \/ \E pn \in QueryNames : get_winners_losers_call(pn)

SpecRank == InitRank /\ [][NextRank]_vars

\* Transactions on the keys of one portfolio, on a store where some of them
\* were bought and then sold down to zero.
ReopenBook ==
  <<BookEntry("Growth", "AAPL", 0, RatOfInt(2),
              <<Buy("Growth", "AAPL", 1, 2), Sell("Growth", "AAPL", 1, 1)>>),
    BookEntry("Growth", "MSFT", 0, [n |-> 3, d |-> 2],
              <<Buy("Growth", "MSFT", 1, 1), Buy("Growth", "MSFT", 1, 2),
                Sell("Growth", "MSFT", 2, 2)>>)>>

InitReopen ==
  /\ variant \in {"persistent", "percall"}
  /\ \E chosen \in SUBSET (1..Len(ReopenBook)) : InitBook(ReopenBook, chosen)
  /\ market_data = {}
  /\ clock = 0
  /\ last = [NoCall EXCEPT !.pre = Snapshot]
  /\ report = NoReport
  /\ history = Len(transactions)
  /\ inflight = [i \in Trackers |-> Idle]

NextReopen ==
  \/ \E pn \in AnyPortfolioNames, s \in Symbols, q \in Quantities, p \in Prices,
        t \in Types :
          add_transaction_persistent(pn, s, q, p, t, "info", "none")
  \/ \E pn \in AnyPortfolioNames, s \in Symbols, q \in Quantities, p \in Prices,
        t \in Types :
          add_transaction_percall(pn, s, q, p, t, "info", "none")

SpecReopen == InitReopen /\ [][NextReopen]_vars

\* Two instances, each making one add_transaction call on the key
\* Growth/AAPL, which may hold a position.
RaceBook ==
  <<BookEntry("Growth", "AAPL", 1, RatOfInt(1), <<Buy("Growth", "AAPL", 1, 1)>>)>>

InitRace ==
  /\ variant \in {"persistent", "percall"}
  /\ \E chosen \in SUBSET (1..Len(RaceBook)) : InitBook(RaceBook, chosen)
  /\ market_data = {}
  /\ clock = 0
  /\ last = [NoCall EXCEPT !.pre = Snapshot]
  /\ report = NoReport
  /\ history = Len(transactions)
  /\ inflight = [i \in Trackers |-> Idle]

NextRace ==
  \/ \E i \in Trackers, pn \in AnyPortfolioNames, s \in AnySymbols, q \in Quantities,
        p \in Prices, t \in Types : begin_persistent(i, pn, s, q, p, t)
  \/ \E i \in Trackers : read_position(i)
  \/ \E i \in Trackers : write_position(i)
  \/ \E i \in Trackers, pn \in AnyPortfolioNames, s \in AnySymbols, q \in Quantities,
        p \in Prices, t \in Types : begin_percall(i, pn, s, q, p, t)
  \/ \E i \in Trackers : commit_percall(i)

SpecRace == InitRace /\ [][NextRace]_vars

\* Every operation of the trackers on one key: portfolios, transactions,
\* price refreshes of the symbols held, valuation queries and exports.
HeldQuoteMaps == {f \in QuoteMaps : f["MSFT"] = NoQuote /\ f["AAPL"] # RatOfInt(2)}

\* The queries about the portfolio, with one limit.
AllQueries ==
  \/ \E pn \in AnyPortfolioNames : get_portfolio_summary(pn)
  \/ \E pn \in AnyPortfolioNames : get_top_holdings(pn, 1)
  \/ \E pn \in AnyPortfolioNames : get_winners_losers_call(pn)
  \/ get_database_stats_call
  \/ \E pn \in AnyPortfolioNames : get_positions_detail_call(pn)
  \/ \E pn \in AnyPortfolioNames : get_performance_analytics_call(pn)

NextAll ==
  \/ \E name \in AnyPortfolioNames : create_portfolio(name)
  \/ \E pn \in AnyPortfolioNames, s \in AnySymbols, q \in Quantities, p \in Prices,
        t \in Types :
          add_transaction_persistent(pn, s, q, p, t, "info", "none")
  \/ \E pn \in AnyPortfolioNames, s \in AnySymbols, q \in Quantities, p \in Prices,
        t \in Types :
          add_transaction_percall(pn, s, q, p, t, "info", "none")
  \/ \E quote \in HeldQuoteMaps : update_market_data_persistent(NoSymbols, quote)
  \/ \E quote \in HeldQuoteMaps : update_market_data_percall(quote)
  \/ Tick
  \/ AllQueries
  \/ \E pn \in AnyPortfolioNames : export_portfolio_data(pn)

SpecAll == Init /\ [][NextAll]_vars

\* Transactions with arguments outside the input domain on one key, and
\* valuation queries.
NextAnyQuery ==
  \/ NextAny
  \/ Queries

SpecAnyQuery == Init /\ [][NextAnyQuery]_vars

\* ------------------------------------------------ vocabulary of the claims

LastAdd  == last.op = "add_transaction"
LastOk   == last.result = "ok"
LastBuy  == LastAdd /\ last.transaction_type = "BUY"
LastSell == LastAdd /\ last.transaction_type = "SELL"

\* The rows of the called key before and after the last call.
PreRows  == SelectPosition(last.pre.positions, last.portfolio_name, last.symbol)
PostRows == SelectPosition(positions, last.portfolio_name, last.symbol)
TheRow(rows) == CHOOSE r \in rows : TRUE

\* The quantity held on a key: that of its row, 0 when it has none.
Held(pos, pid, s) ==
  LET rows == SelectPosition(pos, pid, s)
  IN  IF rows = {} THEN 0 ELSE TheRow(rows).quantity

PortfolioExisted == last.portfolio_name \in last.pre.portfolios

\* The last call was a SELL of more than the key held.
LastOversell == LastSell /\ PortfolioExisted
                  /\ last.quantity > Held(last.pre.positions, last.portfolio_name, last.symbol)

StoreUnchanged ==
  /\ transactions = last.pre.transactions
  /\ positions = last.pre.positions
  /\ securities = last.pre.securities

\* Logged BUY quantities minus logged SELL quantities of one key, over the
\* first n rows of the log.
RECURSIVE NetLogged(_, _, _, _)
NetLogged(txs, pid, s, n) ==
  IF n = 0 THEN 0
  ELSE LET t == txs[n]
           own == t.portfolio_id = pid /\ t.symbol = s
       IN  NetLogged(txs, pid, s, n - 1)
             + (IF own /\ t.transaction_type = "BUY" THEN t.quantity ELSE 0)
             - (IF own /\ t.transaction_type = "SELL" THEN t.quantity ELSE 0)

\* ------------------------------------------------------------------ claims

\* The scenario of the specification, on both variants: BUY 100 @ 150 then
\* BUY 50 @ 180 gives quantity 150 at average cost 160.
BuyScenario ==
  LET p1 == update_position_persistent({}, "Growth", "AAPL", 100, 150, "BUY")
      p2 == update_position_persistent(p1, "Growth", "AAPL", 50, 180, "BUY")
      c1 == update_position_percall({}, "Growth", "AAPL", 100, "BUY", 150)
      c2 == update_position_percall(c1.positions, "Growth", "AAPL", 50, "BUY", 180)
  IN  /\ p1 = {PositionRow("Growth", "AAPL", 100, RatOfInt(150))}
      /\ p2 = {PositionRow("Growth", "AAPL", 150, RatOfInt(160))}
      /\ c1.positions = p1
      /\ c2.positions = p2

\* C1: in both variants a BUY of q > 0 at p > 0 on a key holding (q0, c0)
\* leaves the key with quantity q0 + q and average cost
\* (q0*c0 + q*p)/(q0 + q); on a key without a position it creates one with
\* quantity q and average cost exactly p.  The call succeeds whenever the
\* portfolio exists and the security is known (persistent) resp. whenever
\* the portfolio exists (percall).
C1_BuyWeightedAverage ==
  /\ BuyScenario
  /\ (LastBuy /\ PortfolioExisted
        /\ (variant = "percall" \/ last.symbol \in last.pre.securities)) => LastOk
  /\ (LastBuy /\ LastOk) =>
       /\ Cardinality(PostRows) = 1
       /\ LET r == TheRow(PostRows)
          IN  IF PreRows = {}
              THEN /\ r.quantity = last.quantity
                   /\ r.average_cost.n = last.price * r.average_cost.d
              ELSE LET r0 == TheRow(PreRows)
                       q0 == r0.quantity
                       c0 == r0.average_cost
                   IN  /\ r.quantity = q0 + last.quantity
                       /\ r.average_cost.n * c0.d * (q0 + last.quantity)
                            = r.average_cost.d * (q0 * c0.n + last.quantity * last.price * c0.d)

\* A BUY of 2 @ 2 on a position of 1 @ 1 has left 3 at average cost 5/3.
C1_Witness ==
  /\ LastBuy /\ LastOk
  /\ PreRows = {PositionRow(last.portfolio_name, last.symbol, 1, RatOfInt(1))}
  /\ last.quantity = 2 /\ last.price = 2
  /\ PostRows = {PositionRow(last.portfolio_name, last.symbol, 3, [n |-> 5, d |-> 3])}

\* C2: in the persistent-connection tracker a SELL of more than the key
\* holds fails (an error, not a transaction id) and leaves the position's
\* quantity and average cost unchanged.
C2_OversellFailsPersistent ==
  (variant = "persistent" /\ LastOversell /\ PreRows # {}) =>
     (~LastOk /\ PostRows = PreRows)

\* C3: in the per-call-connection tracker a SELL of more than the key holds
\* fails (not True) and the position is still there with its quantity and
\* average cost unchanged.
C3_OversellFailsPercall ==
  (variant = "percall" /\ LastOversell /\ PreRows # {}) =>
     (~LastOk /\ PostRows # {} /\ PostRows = PreRows)

\* C4: in both variants a SELL of more than the key holds, a key without a
\* position included, appends no row to the transactions table.
C4_OversellNotLogged ==
  LastOversell => transactions = last.pre.transactions

\* C5: in both variants, in every reachable state, each key's stored
\* quantity is the sum of its logged BUY quantities minus the sum of its
\* logged SELL quantities (a key without a row holding 0).
C5_PositionsReplayLog ==
  \A pid \in PortfolioNames, s \in Symbols :
     Held(positions, pid, s) = NetLogged(transactions, pid, s, Len(transactions))

\* C6: in the persistent-connection tracker the insert of the transaction
\* row and the position update are all-or-nothing: a call that fails leaves
\* no transaction row behind, and a call that logs a row has applied
\* _update_position to the positions table.
C6_AtomicLogAndPosition ==
  (variant = "persistent" /\ LastAdd) =>
     /\ ~LastOk => transactions = last.pre.transactions
     /\ transactions # last.pre.transactions =>
          positions = update_position_persistent(last.pre.positions, last.portfolio_name,
                         last.symbol, last.quantity, last.price, last.transaction_type)

\* C7: in both variants a SELL never changes the average cost of the
\* position it is applied to: every SELL of q <= q0 on a position (q0, c0)
\* succeeds, the key then holds exactly q0 - q, and the position's row, as
\* long as the key has one, still carries c0.  (The per-call-connection
\* tracker deletes the row when q = q0, and only then.)
C7_SellKeepsCost ==
  (LastSell /\ PortfolioExisted /\ PreRows # {}
     /\ last.quantity <= TheRow(PreRows).quantity) =>
     /\ LastOk
     /\ Cardinality(PostRows) <= 1
     /\ Held(positions, last.portfolio_name, last.symbol)
          = TheRow(PreRows).quantity - last.quantity
     /\ PostRows # {} => TheRow(PostRows).average_cost = TheRow(PreRows).average_cost
     /\ PostRows = {} => last.quantity = TheRow(PreRows).quantity

\* A SELL of 1 at price 2 on a position of 2 at average cost 1 has left 1 at
\* average cost 1.
C7_Witness ==
  /\ LastSell /\ LastOk
  /\ last.quantity = 1 /\ last.price = 2
  /\ PreRows = {PositionRow(last.portfolio_name, last.symbol, 2, RatOfInt(1))}
  /\ PostRows = {PositionRow(last.portfolio_name, last.symbol, 1, RatOfInt(1))}

\* C8: in both variants add_transaction with a quantity or a price that is
\* not positive is rejected before any mutation: the transactions and the
\* positions tables are unchanged and the caller is told of the failure.
C8_NonPositiveRejected ==
  (LastAdd /\ (last.quantity <= 0 \/ last.price <= 0)) =>
     (~LastOk /\ transactions = last.pre.transactions
              /\ positions = last.pre.positions)

\* C9: in the persistent-connection tracker on the demo schema
\* add_transaction with a type other than BUY and SELL is rejected before
\* any mutation: no transactions, positions or securities row is added or
\* changed.
C9_UnknownTypeRejected ==
  (variant = "persistent" /\ LastAdd /\ last.transaction_type \notin {"BUY", "SELL"}) =>
     (~LastOk /\ StoreUnchanged)

\* C10: in both variants add_transaction naming a portfolio that does not
\* exist reports a failure (ValueError raised / False returned) and writes
\* nothing: transactions, positions and securities are unchanged.
C10_UnknownPortfolio ==
  (LastAdd /\ ~PortfolioExisted) =>
     (~LastOk /\ last.error = "ValueError" /\ StoreUnchanged)

\* add_transaction named a portfolio that does not exist while another
\* portfolio exists and holds a position.
C10_Witness ==
  /\ LastAdd /\ ~PortfolioExisted
  /\ last.pre.portfolios # {}
  /\ positions # {}

\* ------------------------------------------------- claims on the price store

LastRefresh == last.op = "update_market_data"

PriceRows(md, s) == {r \in md : r.symbol = s}

\* The rows of a symbol that carry its latest timestamp.
LatestRows(md, s) ==
  {r \in PriceRows(md, s) : \A o \in PriceRows(md, s) : o.timestamp <= r.timestamp}

\* The symbols the last refresh was asked to process.
Requested ==
  IF variant = "persistent"
  THEN IF last.symbols.given
       THEN last.symbols.list
       ELSE {r.symbol : r \in {x \in last.pre.positions : x.quantity > 0}}
  ELSE {r.symbol : r \in last.pre.positions}

Fetched(s) == s \in Requested /\ last.quote[s] # NoQuote

\* C11: in the persistent-connection tracker on the schema of its demo,
\* after any sequence of update_market_data calls market_data holds at most
\* one row per symbol, and after a refresh that fetched a symbol's price
\* that row carries the fetched price.
C11_OnePriceRowPerSymbol ==
  variant = "persistent" =>
    \A s \in Symbols :
       /\ Cardinality(PriceRows(market_data, s)) <= 1
       /\ (LastRefresh /\ Fetched(s)) =>
            \A r \in PriceRows(market_data, s) : r.price = last.quote[s]

\* C12: a price refresh never propagates an error to the caller, and after
\* it every requested symbol whose fetch succeeded has the fetched price as
\* its stored (latest) price, stamped with the time of the call, while every
\* other symbol has exactly the price rows it had before.
C12_RefreshSkipsFailures ==
  LastRefresh =>
    /\ LastOk
    /\ \A s \in Symbols :
         IF Fetched(s)
         THEN LatestRows(market_data, s) = {MarketDataRow(s, last.quote[s], last.now)}
         ELSE PriceRows(market_data, s) = PriceRows(last.pre.market_data, s)

\* A refresh of two symbols that both had a stored price: the fetch of one
\* failed, the fetch of the other returned a new price.
C12_Witness ==
  /\ LastRefresh
  /\ \E s, f \in Symbols :
       /\ s \in Requested /\ f \in Requested
       /\ last.quote[f] = NoQuote /\ last.quote[s] # NoQuote
       /\ PriceRows(last.pre.market_data, f) # {}
       /\ \E r \in PriceRows(last.pre.market_data, s) : r.price # last.quote[s]

\* ---------------------------------------------------- claims on valuations

LastQuery(op) == last.op = op

\* The rows of the last frame(s), as a set.
ReportRows ==
  {report.rows[i] : i \in 1..Len(report.rows)}
    \cup {report.losers[i] : i \in 1..Len(report.losers)}

\* The open positions of a portfolio, of every portfolio when pn is "".
OpenPositions(pos, pn) ==
  {r \in pos : r.quantity > 0 /\ (pn # "" => r.portfolio_id = pn)}

\* The effective price of a position: the stored live price of its symbol
\* (that of the latest row), else its average cost.
EffectivePrice(md, r) ==
  IF PriceRows(md, r.symbol) = {}
  THEN r.average_cost
  ELSE (CHOOSE x \in LatestRows(md, r.symbol) : TRUE).price

\* The valuation of one position in exact arithmetic: cost basis q*c,
\* market value q*e, unrealized P&L and return percent.
Valuation(md, r) ==
  LET q     == SqlReal(RatOfInt(r.quantity))
      cost  == SqlMul(q, SqlReal(r.average_cost))
      value == SqlMul(q, SqlReal(EffectivePrice(md, r)))
      pnl   == SqlSub(value, cost)
  IN  [portfolio_id |-> r.portfolio_id, symbol |-> r.symbol,
       cost |-> cost, value |-> value, pnl |-> pnl,
       return |-> IF cost.n = 0 THEN SqlReal(RatOfInt(0))
                  ELSE SqlMul(SqlDivReal(pnl, cost), SqlReal(RatOfInt(100)))]

\* The valuation of a set of positions from their summed values.
Aggregate(md, rows) ==
  LET vals  == {Valuation(md, r) : r \in rows}
      cost  == SqlSum(vals, "cost")
      value == SqlSum(vals, "value")
      pnl   == SqlSub(value, cost)
  IN  [positions |-> Cardinality(rows), cost |-> cost, value |-> value, pnl |-> pnl,
       return |-> IF IsNull(cost) \/ cost.n = 0 THEN SqlReal(RatOfInt(0))
                  ELSE SqlMul(SqlDivReal(pnl, cost), SqlReal(RatOfInt(100)))]

\* Two SQL values are the same number.
Same(a, b) == ~IsNull(a) /\ ~IsNull(b) /\ a.n * b.d = b.n * a.d

\* The position a reported row is about.
PositionOf(pid, s) == TheRow(SelectPosition(positions, pid, s))

\* C13: in both variants the per-position valuation queries value an open
\* position (q, c) at the effective price e (stored live price, else c)
\* and report market value q*e, cost basis q*c, unrealized P&L q*e - q*c
\* and return percent (q*e - q*c)/(q*c)*100, each to the precision of the
\* frame (two decimals for money and one for the return in the persistent
\* tracker, unrounded in get_positions_detail).
C13_PositionValuation ==
  /\ (variant = "persistent"
        /\ (LastQuery("get_top_holdings") \/ LastQuery("get_winners_losers"))) =>
       \A row \in ReportRows :
          LET v == Valuation(market_data, PositionOf(row.portfolio_id, row.Symbol))
          IN  /\ Same(row.Market_Value, SqlRound(v.value, 2))
              /\ Same(row.Total_Return, SqlRound(v.return, 1))
              /\ LastQuery("get_top_holdings") => Same(row.Cost_Basis, SqlRound(v.cost, 2))
              /\ LastQuery("get_winners_losers") => Same(row.PL_Amount, SqlRound(v.pnl, 2))
  /\ (variant = "percall" /\ LastQuery("get_positions_detail")) =>
       \A row \in ReportRows :
          LET v == Valuation(market_data, PositionOf(row.portfolio_id, row.symbol))
          IN  /\ Same(row.market_value, v.value)
              /\ Same(row.cost_basis, v.cost)
              /\ Same(row.return_percent, v.return)

\* C14: in the persistent-connection tracker get_portfolio_summary,
\* get_top_holdings and get_winners_losers report a return percent of 0,
\* not NULL, for a position or a portfolio whose cost basis is 0.
C14_ZeroCostBasisReturn ==
  variant = "persistent" =>
    /\ (LastQuery("get_top_holdings") \/ LastQuery("get_winners_losers")) =>
         \A row \in ReportRows :
            Valuation(market_data, PositionOf(row.portfolio_id, row.Symbol)).cost.n = 0
              => Same(row.Total_Return, SqlInteger(0))
    /\ LastQuery("get_portfolio_summary") =>
         \A row \in ReportRows :
            Aggregate(market_data, OpenPositions(positions, row.Portfolio)).cost.n = 0
              => Same(row.Total_Return, SqlInteger(0))

\* The round of the frame: ROUND(x, k) in the persistent tracker, the text
\* PRINTF prints in the per-call one.
Shown(x, k) == IF variant = "persistent" THEN SqlRound(x, k) ELSE Printf(x, 0)

\* The row of a portfolio summary agrees with the open positions of its
\* portfolio, each counted once.
SummaryAgrees(row) ==
  LET a == Aggregate(market_data, OpenPositions(positions, row.Portfolio))
  IN  /\ row.Positions = a.positions
      /\ a.positions > 0 =>
           /\ Same(row.Cost_Basis, Shown(a.cost, 2))
           /\ Same(row.Market_Value, Shown(a.value, 2))

\* C15: in both variants a position sold down to exactly zero is absent
\* from every later valuation output: no row of get_top_holdings,
\* get_winners_losers or get_positions_detail is about a key that holds 0,
\* and the position count, cost basis and market value of
\* get_portfolio_summary and get_database_stats are those of the
\* positions whose quantity is above 0.
C15_ClosedPositionExcluded ==
  /\ (LastQuery("get_top_holdings") \/ LastQuery("get_winners_losers")) =>
       \A row \in ReportRows : Held(positions, row.portfolio_id, row.Symbol) > 0
  /\ LastQuery("get_positions_detail") =>
       \A row \in ReportRows : Held(positions, row.portfolio_id, row.symbol) > 0
  /\ LastQuery("get_portfolio_summary") =>
       \A row \in ReportRows : row.Portfolio # "" => SummaryAgrees(row)
  /\ LastQuery("get_database_stats") =>
       \A row \in ReportRows :
          LET a == Aggregate(market_data, OpenPositions(positions, ""))
          IN  /\ row.positions = a.positions
              /\ a.positions > 0 => Same(row.total_market_value, SqlRound(a.value, 2))

\* A key was bought and then sold down to exactly zero.
ClosedBySell(pid, s) ==
  /\ Held(positions, pid, s) = 0
  /\ \E i \in 1..Len(transactions) :
       /\ transactions[i].portfolio_id = pid /\ transactions[i].symbol = s
       /\ transactions[i].transaction_type = "SELL"
  /\ NetLogged(transactions, pid, s, Len(transactions)) = 0

\* get_database_stats or get_portfolio_summary has answered, with a row, on
\* a store where a key was closed by a SELL.
C15_Witness ==
  /\ LastQuery("get_portfolio_summary") \/ LastQuery("get_database_stats")
  /\ \E pid \in PortfolioNames, s \in Symbols : ClosedBySell(pid, s)
  /\ ReportRows # {}

\* C16: in the persistent-connection tracker on the schema of its demo,
\* after any transactions and price refreshes, every row of
\* get_portfolio_summary counts each open position of its portfolio once:
\* Positions is their number, Cost_Basis and Market_Value are the sums of
\* quantity * average_cost and quantity * effective price over them.
C16_SummaryCountsOnce ==
  (variant = "persistent" /\ LastQuery("get_portfolio_summary")) =>
     /\ \A row \in ReportRows : SummaryAgrees(row)
     /\ \A p \in portfolios :
          (last.portfolio_name \in {"", p} /\ OpenPositions(positions, p) # {})
            => \E row \in ReportRows : row.Portfolio = p

\* C17: in both variants the portfolio-level return percent is
\* (sum of market values - sum of cost bases) / sum of cost bases * 100 over
\* the open positions of the portfolio, to one decimal in
\* get_portfolio_summary and unrounded in get_performance_analytics.
C17_ReturnFromSums ==
  /\ LastQuery("get_portfolio_summary") =>
       \A row \in ReportRows :
          LET a == Aggregate(market_data, OpenPositions(positions, row.Portfolio))
          IN  (row.Portfolio # "" /\ a.positions > 0)
                => Same(row.Total_Return, SqlRound(a.return, 1))
  /\ LastQuery("get_performance_analytics") =>
       \A row \in ReportRows :
          Same(row.total_return_percent,
               Aggregate(market_data, OpenPositions(positions, row.portfolio_id)).return)

\* ------------------------------------------------------ claims on the rankings

\* The exact valuation of the position a reported row is about.
TrueOf(row) == Valuation(market_data, PositionOf(row.portfolio_id, row.Symbol))

\* The open positions the last query was asked about.
InScope == OpenPositions(positions, last.portfolio_name)

\* The positions a frame has rows about.
PositionsIn(frame) ==
  {PositionOf(frame[i].portfolio_id, frame[i].Symbol) : i \in 1..Len(frame)}

Smaller(a, b) == IF a < b THEN a ELSE b

\* The N best of the positions in scope by a column of their exact
\* valuation, best first.
BestFirst(frame, col, n) ==
  /\ Len(frame) = Smaller(n, Cardinality(InScope))
  /\ Cardinality(PositionsIn(frame)) = Len(frame)
  /\ PositionsIn(frame) \subseteq InScope
  /\ \A i, j \in 1..Len(frame) :
       i < j => ~SqlLess(TrueOf(frame[i])[col], TrueOf(frame[j])[col])
  /\ \A r \in InScope \ PositionsIn(frame) : \A k \in PositionsIn(frame) :
       ~SqlLess(Valuation(market_data, k)[col], Valuation(market_data, r)[col])

\* The N worst of the positions in scope by a column of their exact
\* valuation, worst first.
WorstFirst(frame, col, n) ==
  /\ Len(frame) = Smaller(n, Cardinality(InScope))
  /\ Cardinality(PositionsIn(frame)) = Len(frame)
  /\ PositionsIn(frame) \subseteq InScope
  /\ \A i, j \in 1..Len(frame) :
       i < j => ~SqlLess(TrueOf(frame[j])[col], TrueOf(frame[i])[col])
  /\ \A r \in InScope \ PositionsIn(frame) : \A k \in PositionsIn(frame) :
       ~SqlLess(Valuation(market_data, r)[col], Valuation(market_data, k)[col])

\* The Total_Return column of a frame is this list of whole percents.
Returns(frame, percents) ==
  /\ Len(frame) = Len(percents)
  /\ \A i \in 1..Len(frame) :
       Same(frame[i].Total_Return, SqlReal(RatOfInt(percents[i])))

\* The store of the scenario: five open positions of Growth returning +20%,
\* +5%, -10%, -30% and 0%, one price row per symbol at most.
ScenarioAsked ==
  /\ last.portfolio_name = "Growth"
  /\ {r.symbol : r \in InScope} = {"AAPL", "AMZN", "GOOG", "META", "MSFT"}
  /\ \A s \in RankSymbols : Cardinality(PriceRows(market_data, s)) <= 1

\* C18: get_winners_losers sorts the open positions in scope by return
\* percent descending and returns the top N as winners and the bottom N,
\* read from the bottom end, as losers; on returns +20%, +5%, -10%, -30%
\* and 0% with N = 2 the winners are [+20%, +5%] and the losers
\* [-30%, -10%].  The tracker takes no N: its N is TopN.
C18_WinnersLosers ==
  (variant = "persistent" /\ LastQuery("get_winners_losers")) =>
     /\ BestFirst(report.rows, "return", TopN)
     /\ WorstFirst(report.losers, "return", TopN)
     /\ ScenarioAsked =>
          /\ Returns(report.rows, <<20, 5>>)
          /\ Returns(report.losers, <<-30, -10>>)

\* The symbols in ascending order.
SymbolsAscending == <<"AAPL", "AMZN", "GOOG", "META", "MSFT", "TSLA">>

SymbolRank(s) == CHOOSE i \in 1..Len(SymbolsAscending) : SymbolsAscending[i] = s

\* Rows of a frame with equal keys come by symbol ascending.
TiesBySymbol(frame, col) ==
  \A i, j \in 1..Len(frame) :
     (i < j /\ Same(frame[i][col], frame[j][col]))
       => SymbolRank(frame[i].Symbol) <= SymbolRank(frame[j].Symbol)

\* C19: in the persistent-connection tracker the frames of
\* get_winners_losers list rows of equal return percent, and the frame of
\* get_top_holdings rows of equal market value, by symbol ascending, which
\* makes the order of the output a function of the store.
C19_TiesBySymbol ==
  /\ (variant = "persistent" /\ LastQuery("get_winners_losers")) =>
       /\ TiesBySymbol(report.rows, "Total_Return")
       /\ TiesBySymbol(report.losers, "Total_Return")
  /\ (variant = "persistent" /\ LastQuery("get_top_holdings")) =>
       TiesBySymbol(report.rows, "Market_Value")

\* C20: in both variants get_top_holdings(portfolio, limit) returns at most
\* limit rows, only rows of the named portfolio when one is given, in
\* non-increasing order of market value quantity * effective price, and no
\* open position of the scope that it omits has a market value greater
\* than that of a position it returns.
C20_TopHoldings ==
  LastQuery("get_top_holdings") =>
     /\ Len(report.rows) <= last.limit
     /\ \A row \in ReportRows :
          last.portfolio_name # "" => row.portfolio_id = last.portfolio_name
     /\ PositionsIn(report.rows) \subseteq InScope
     /\ \A i, j \in 1..Len(report.rows) :
          i < j => ~SqlLess(TrueOf(report.rows[i]).value, TrueOf(report.rows[j]).value)
     /\ \A r \in InScope \ PositionsIn(report.rows) :
          \A k \in PositionsIn(report.rows) :
             ~SqlLess(Valuation(market_data, k).value, Valuation(market_data, r).value)

\* ------------------------------------------------- claims on the ledger

\* The rows of the log about one key among its first n rows.
OwnRow(t, pid, s) == t.portfolio_id = pid /\ t.symbol = s

\* The log holds rows about the key, and all of them are BUYs.
OnlyBuys(txs, pid, s) ==
  /\ \E i \in 1..Len(txs) : OwnRow(txs[i], pid, s)
  /\ \A i \in 1..Len(txs) : OwnRow(txs[i], pid, s) => txs[i].transaction_type = "BUY"

\* sum(q_i) and sum(q_i * p_i) over the logged BUYs of one key.
RECURSIVE BoughtQuantity(_, _, _, _)
BoughtQuantity(txs, pid, s, n) ==
  IF n = 0 THEN 0
  ELSE BoughtQuantity(txs, pid, s, n - 1)
         + (IF OwnRow(txs[n], pid, s) /\ txs[n].transaction_type = "BUY"
            THEN txs[n].quantity ELSE 0)

RECURSIVE BoughtAmount(_, _, _, _)
BoughtAmount(txs, pid, s, n) ==
  IF n = 0 THEN 0
  ELSE BoughtAmount(txs, pid, s, n - 1)
         + (IF OwnRow(txs[n], pid, s) /\ txs[n].transaction_type = "BUY"
            THEN txs[n].quantity * txs[n].price ELSE 0)

\* The positions table after a sequence of BUYs on one key of an empty
\* table, in either variant.
RECURSIVE AfterBuys(_, _)
AfterBuys(v, buys) ==
  IF buys = <<>> THEN {}
  ELSE LET before == AfterBuys(v, SubSeq(buys, 1, Len(buys) - 1))
           b      == buys[Len(buys)]
       IN  IF v = "persistent"
           THEN update_position_persistent(before, "Growth", "AAPL", b[1], b[2], "BUY")
           ELSE update_position_percall(before, "Growth", "AAPL", b[1], "BUY", b[2]).positions

\* Three BUYs give the same position in each of their six orders.
BuyOrderIrrelevant ==
  \A v \in {"persistent", "percall"} :
    \A a, b, c \in Quantities \X Prices :
       LET P == AfterBuys(v, <<a, b, c>>)
       IN  /\ P = AfterBuys(v, <<a, c, b>>) /\ P = AfterBuys(v, <<b, a, c>>)
           /\ P = AfterBuys(v, <<b, c, a>>) /\ P = AfterBuys(v, <<c, a, b>>)
           /\ P = AfterBuys(v, <<c, b, a>>)

C22_PositionsWellFormed ==
  \A r \in positions :
     /\ r.quantity >= 0
     /\ r.quantity > 0 => (r.average_cost.n > 0 /\ r.average_cost.d > 0)

\* A SELL of more than the key held has been called on a key with a row,
\* and the key still has its row.
C22_Witness ==
  /\ LastOversell
  /\ PreRows # {} /\ TheRow(PreRows).quantity > 0
  /\ PostRows # {}

\* Both instances have returned from a successful BUY.
BothBought ==
  \A i \in Trackers : inflight[i].pc = "done" /\ inflight[i].transaction_type = "BUY"

\* C23: two add_transaction calls on one key, made at the same time by two
\* instances on one database, lose no update: once both BUYs have returned
\* successfully the key holds what it held plus both quantities, which is
\* what the log holds for it.
C23_NoLostUpdate ==
  BothBought =>
     \A i \in Trackers :
        Held(positions, inflight[i].portfolio_name, inflight[i].symbol)
          = NetLogged(transactions, inflight[i].portfolio_name, inflight[i].symbol,
                      Len(transactions))

\* Before the last call its key had been bought and then closed by the SELL
\* of all it held: the key held nothing, its logged BUYs and SELLs balance
\* and the last of them is a SELL.
WasClosed ==
  LET txs == last.pre.transactions
      own == {i \in 1..Len(txs) : OwnRow(txs[i], last.portfolio_name, last.symbol)}
  IN  /\ own # {}
      /\ txs[CHOOSE i \in own : \A j \in own : j <= i].transaction_type = "SELL"
      /\ NetLogged(txs, last.portfolio_name, last.symbol, Len(txs)) = 0
      /\ Held(last.pre.positions, last.portfolio_name, last.symbol) = 0

C27_OneRowPerKey ==
  /\ \A a, b \in positions :
       (a.portfolio_id = b.portfolio_id /\ a.symbol = b.symbol) => a = b
  /\ (LastBuy /\ LastOk /\ PreRows # {}) =>
       /\ Cardinality(PostRows) = 1
       /\ Cardinality(positions) = Cardinality(last.pre.positions)

\* A BUY on a key whose row had quantity 0 has left the key with one row.
C27_Witness ==
  /\ LastBuy /\ LastOk
  /\ PreRows # {} /\ TheRow(PreRows).quantity = 0
  /\ Cardinality(PostRows) = 1 /\ TheRow(PostRows).quantity = last.quantity

\* The rows of every key but the called one.
OtherRows(pos) ==
  {r \in pos : ~(r.portfolio_id = last.portfolio_name /\ r.symbol = last.symbol)}

\* C29: in both variants an add_transaction call on (P, S), successful or
\* not, leaves the rows of every other key (other symbols of P, S in other
\* portfolios) as they were: same quantity, same average cost.
C29_OtherKeysUnchanged ==
  LastAdd => OtherRows(positions) = OtherRows(last.pre.positions)

\* A successful call changed its own key while the same symbol was held in
\* another portfolio.
C29_Witness ==
  /\ LastAdd /\ LastOk /\ PostRows # PreRows
  /\ \E r \in OtherRows(positions) :
       r.symbol = last.symbol /\ r.quantity > 0

\* A successful call changed its own key while another symbol of the same
\* portfolio was held.
C29_OtherSymbol ==
  /\ LastAdd /\ LastOk /\ PostRows # PreRows
  /\ \E r \in OtherRows(positions) :
       r.portfolio_id = last.portfolio_name /\ r.quantity > 0

\* A failed call while another key was held.
C29_FailedCall ==
  /\ LastAdd /\ ~LastOk
  /\ \E r \in OtherRows(positions) : r.quantity > 0

\* ---------------------------------------------------- claims on the frames

\* C30: in the persistent-connection tracker the two frames of one
\* get_winners_losers call share no position: no open position is reported
\* both as a top performer and as an underperformer, however many positions
\* are open.
C30_WinnersLosersDisjoint ==
  (variant = "persistent" /\ LastQuery("get_winners_losers")) =>
     PositionsIn(report.rows) \cap PositionsIn(report.losers) = {}

\* The call was made on more than one open position and every position it
\* reported is in both frames.
C30_AllShared ==
  /\ variant = "persistent" /\ LastQuery("get_winners_losers")
  /\ Cardinality(InScope) > 1
  /\ PositionsIn(report.rows) = InScope
  /\ PositionsIn(report.losers) = InScope

\* The log before the last call is the beginning of the log after it.
LogKept ==
  /\ Len(last.pre.transactions) <= Len(transactions)
  /\ \A i \in 1..Len(last.pre.transactions) :
       transactions[i] = last.pre.transactions[i]

\* The record of the last call's arguments.
LastRecord ==
  [portfolio_id |-> last.portfolio_name, symbol |-> last.symbol,
   quantity |-> last.quantity, price |-> last.price,
   transaction_type |-> last.transaction_type]

\* C25: in both variants the transaction log is append-only: an
\* add_transaction call that reports success appends exactly one record with
\* the given portfolio, symbol, quantity, price and type, and no operation
\* (add_transaction, update_market_data, a valuation query, an export)
\* modifies or deletes a record the log already held.
C25_AppendOnly ==
  /\ LogKept
  /\ (LastAdd /\ LastOk) =>
       transactions = Append(last.pre.transactions, LastRecord)
  /\ ~LastAdd => transactions = last.pre.transactions

\* A successful SELL was appended to a log that held records.
C25_Witness ==
  /\ LastSell /\ LastOk
  /\ last.pre.transactions # <<>>
  /\ Len(transactions) = Len(last.pre.transactions) + 1
  /\ transactions[Len(transactions)] = LastRecord

\* A price refresh that stored a price, a query and an export ran on a log
\* that held records.
C25_OtherCalls(op) ==
  /\ last.op = op /\ transactions # <<>>
  /\ (op = "update_market_data" => market_data # last.pre.market_data)

C25_AfterRefresh == C25_OtherCalls("update_market_data")
C25_AfterQuery   == C25_OtherCalls("get_top_holdings")
C25_AfterExport  == C25_OtherCalls("export_portfolio_data")

\* C26: in both variants only add_transaction changes positions:
\* create_portfolio, update_market_data, the valuation queries and
\* export_portfolio_data leave every position's quantity and average cost as
\* they were, and add_transaction leaves the stored prices as they were.
C26_OnlyAddChangesPositions ==
  /\ ~LastAdd => positions = last.pre.positions
  /\ LastAdd => market_data = last.pre.market_data

\* A price refresh stored a price of a held symbol that differs from the
\* position's average cost.
C26_Witness ==
  /\ LastRefresh
  /\ market_data # last.pre.market_data
  /\ \E r \in positions, m \in market_data :
       r.symbol = m.symbol /\ r.quantity > 0 /\ m.price # r.average_cost

\* A successful add_transaction changed a position while a price was stored.
C26_AddWithPrices ==
  /\ LastAdd /\ LastOk
  /\ positions # last.pre.positions
  /\ market_data # {}

\* create_portfolio, a query and an export ran while a position was held.
C26_OtherCalls(op) ==
  last.op = op /\ \E r \in positions : r.quantity > 0

C26_AfterCreate == C26_OtherCalls("create_portfolio")
C26_AfterQuery  == C26_OtherCalls("get_portfolio_summary")
C26_AfterExport == C26_OtherCalls("export_portfolio_data")

\* The query methods of the persistent-connection tracker.
PersistentQueries ==
  {"get_portfolio_summary", "get_top_holdings", "get_winners_losers",
   "get_database_stats"}

RowsOf(frame) == {frame[i] : i \in 1..Len(frame)}

\* Two frames hold the same values of a column, place by place (NULL in
\* the same places).
SameColumn(f, g, col) ==
  /\ Len(f) = Len(g)
  /\ \A i \in 1..Len(f) :
       \/ IsNull(f[i][col]) /\ IsNull(g[i][col])
       \/ Same(f[i][col], g[i][col])

\* Two frames agree on every (portfolio, symbol, price row) both report:
\* same effective price, same valuation.
AgreeOnShared(f, g) ==
  \A a \in RowsOf(f), b \in RowsOf(g) :
     (a.portfolio_id = b.portfolio_id /\ a.Symbol = b.Symbol
        /\ a.price_time = b.price_time) => a = b

\* C28: in the persistent-connection tracker get_portfolio_summary,
\* get_top_holdings, get_winners_losers and get_database_stats change no
\* stored portfolio, position, transaction or price, and the same read made
\* again with no add_transaction or refresh in between (time may pass)
\* returns the same effective prices and valuations.
C28_PureRead ==
  (variant = "persistent" /\ last.op \in PersistentQueries) =>
     /\ Snapshot = last.pre
     /\ LastQuery("get_portfolio_summary") =>
          \A again \in get_portfolio_summary_persistent(positions, market_data,
                                                        portfolios, last.portfolio_name) :
             RowsOf(again) = RowsOf(report.rows)
     /\ LastQuery("get_top_holdings") =>
          \A again \in get_top_holdings_persistent(positions, market_data, portfolios,
                                                   securities, last.portfolio_name,
                                                   last.limit) :
             /\ SameColumn(again, report.rows, "Market_Value")
             /\ AgreeOnShared(again, report.rows)
     /\ LastQuery("get_winners_losers") =>
          \A again \in get_winners_losers(positions, market_data, portfolios,
                                          securities, last.portfolio_name) :
             /\ SameColumn(again.rows, report.rows, "Total_Return")
             /\ SameColumn(again.losers, report.losers, "Total_Return")
             /\ AgreeOnShared(again.rows, report.rows)
             /\ AgreeOnShared(again.losers, report.losers)
     /\ LastQuery("get_database_stats") =>
          report.rows = <<get_database_stats(positions, market_data, portfolios,
                                             securities, transactions)>>

\* get_top_holdings reported a position valued at a stored price that
\* differs from its average cost, and time has passed since.
C28_Witness ==
  /\ variant = "persistent" /\ LastQuery("get_top_holdings")
  /\ clock > last.now
  /\ \E r \in RowsOf(report.rows), m \in market_data, p \in positions :
       /\ r.Symbol = m.symbol /\ r.price_time = m.timestamp
       /\ p.symbol = m.symbol /\ p.portfolio_id = r.portfolio_id
       /\ m.price # p.average_cost

\* Each of the other three queries ran on a store with an open position.
C28_Ran(op) ==
  /\ variant = "persistent" /\ LastQuery(op)
  /\ report.rows # <<>>
  /\ \E r \in positions : r.quantity > 0

C28_RanSummary == C28_Ran("get_portfolio_summary")
C28_RanWinners == C28_Ran("get_winners_losers")
C28_RanStats   == C28_Ran("get_database_stats")

====
